---- MODULE Spec2Model ----
(***************************************************************************)
(* A model of the evox Gaussian-process classification wrapper             *)
(* (src/evox/operators/gaussian_process/classification.py) and of the      *)
(* example script (tests/test.py).                                         *)
(*                                                                         *)
(* Objects of the external libraries (gpjax, jax, optax, evox) are opaque  *)
(* to this code.  They are modelled as terms that record how they were     *)
(* built: which external function was called, on which arguments.  A call  *)
(* of an external function may raise; which call raises is an input of     *)
(* the handler that makes it.                                              *)
(***************************************************************************)
EXTENDS Integers, Sequences, FiniteSets, TLC

VARIABLES
    import_exc,          \* environment: <<>> if gpjax imports, else <<str(e)>>
    modState,            \* classification module: "unloaded", "loaded", "failed"
    original_error_msg,  \* module global set in the except branch
    defaults,            \* __init__'s default arguments, evaluated at def time
    self,                \* the wrapper's attributes (its __dict__)
    op,                  \* the last operation and its arguments
    calls,               \* the external calls the last operation made, in order
    raised,              \* <<>> or <<error>>: what the last operation raised
    returned,            \* <<>> or <<value>>: what the last operation returned
    pc,                  \* tests/test.py: position in the script
    algorithm,           \* run_moea: the algorithm object
    state,               \* run_moea: the workflow state
    true_pf,             \* run_moea: <<>> or <<the true Pareto front>>
    i,                   \* the loop index of run_moea / rr
    printed,             \* what the script has printed, in order
    result,              \* rr: the batched result
    re_res               \* rr: the reshaped matrix

gpVars == <<import_exc, modState, original_error_msg, defaults, self, op,
            calls, raised, returned>>
scriptVars == <<pc, algorithm, state, true_pf, i, printed, result, re_res>>
vars == <<gpVars, scriptVars>>

----------------------------------------------------------------------------
(* Bounds of the model.                                                    *)

\* Arrays given to fit and predict have 1..MaxRows rows.
MaxRows == 2

----------------------------------------------------------------------------
(* Generic helpers.                                                        *)

\* Python's None, a term like the library's objects.
None == [cls |-> "NoneType", args |-> <<>>]

\* obj.name = val on a Python object whose __dict__ is obj.
SetAttr(obj, name, val) ==
    [a \in (DOMAIN obj) \cup {name} |-> IF a = name THEN val ELSE obj[a]]

HasAttr(obj, name) == name \in DOMAIN obj

NoObject == [a \in {} |-> None]

\* An error message contains a text: messages are sequences of pieces.
Contains(msg, text) == \E k \in DOMAIN msg : msg[k] = text

----------------------------------------------------------------------------
(* classification.py lines 8-34: the optional import and its stubs.        *)

\* The texts str(e) of the ImportError the import of gpjax can raise.
ImportErrorTexts == {"No module named 'gpjax'",
                     "cannot import name 'Zero' from 'gpjax.mean_functions'"}

StubNames == {"gpx", "RBF", "Zero", "LogPosteriorDensity"}

\* The name each stub's message starts with (the stub of gpx says "gpjax").
StubLabel(name) == IF name = "gpx" THEN "gpjax" ELSE name

\* A stub whose message is a plain string: the f prefix forgotten.
StubMessageNoFormat(name, orig) ==
    <<StubLabel(name), " requires gpjax, but got \"", "{original_error_msg}",
      "\" when importing">>

\* f'{name} requires gpjax, but got "{original_error_msg}" when importing'
StubMessage(name, orig) ==
    <<StubLabel(name), " requires gpjax, but got \"", orig,
      "\" when importing">>

\* def RBF(*args, **kwargs): raise ImportError(...)   (any arguments)
Stub(name, args, orig) ==
    [type |-> "ImportError", msg |-> StubMessage(name, orig)]

\* Arguments a stub may be called with.
StubArgs == {<<>>,
             <<[name |-> "negative", value |-> TRUE]>>,
             <<[name |-> "args[0]", value |-> FALSE],
               [name |-> "negative", value |-> FALSE]>>}

----------------------------------------------------------------------------
(* classification.py lines 59-66: the default arguments of __init__ are    *)
(* expressions evaluated once, when the def statement runs, that is while  *)
(* the module is loading.                                                  *)

DefaultCalls ==
    <<[fn |-> "RBF", args |-> <<>>],
      [fn |-> "Zero", args |-> <<>>],
      [fn |-> "LogPosteriorDensity",
       args |-> <<[name |-> "negative", value |-> TRUE]>>]>>

\* The library's objects, as terms.
LibCall(c) == [cls |-> c.fn, args |-> c.args]

DefaultValues ==
    [kernel  |-> LibCall(DefaultCalls[1]),
     meanfun |-> LibCall(DefaultCalls[2]),
     likelihood |-> None,
     object  |-> LibCall(DefaultCalls[3]),
     key     |-> [cls |-> "PRNGKey", args |-> <<123>>]]

----------------------------------------------------------------------------
(* Arrays.  An array is its dtype and its rows; the arrays given to fit   *)
(* and predict are integer column vectors, as in tests/test.py.           *)

\* Up to 2^24 every integer is a 32-bit float.
TwoTo24 == 2 ^ 24

\* Values of array entries: one a 32-bit float holds, one it does not.
Values == {3, TwoTo24 + 1}

Fill(n, v) == [k \in 1..n |-> v]

\* Feature matrices, for fit and predict.
Arrays == {[dtype |-> "int32", data |-> Fill(n, v)] :
              n \in 1..MaxRows, v \in Values}

\* Label vectors, for fit.
Labels == {[dtype |-> "int32", data |-> Fill(n, 1)] : n \in 1..MaxRows}

Rows(a) == Len(a.data)

\* The nearest 32-bit float of an integer 0 <= v < 2^25 (ties to even):
\* above 2^24 only the even integers are 32-bit floats.
Float32(v) ==
    IF v <= TwoTo24 \/ v % 2 = 0 THEN v
    ELSE IF (v + 1) % 4 = 0 THEN v + 1 ELSE v - 1

\* a.astype(dt)
AsType(a, dt) ==
    [dtype |-> dt,
     data  |-> [k \in DOMAIN a.data |->
                   IF dt = "float32" THEN Float32(a.data[k]) ELSE a.data[k]]]

\* An error an external library raises from the call of fn.
ExternalError(fn) == [type |-> "ExternalError", msg |-> <<fn>>]

\* Reading an attribute the object does not have.
AttributeError(name) ==
    [type |-> "AttributeError",
     msg  |-> <<"'GPClassification' object has no attribute '", name, "'">>]

----------------------------------------------------------------------------
(* GPClassification.__init__, classification.py lines 59-74.               *)

\* What a handler does: the object's attributes after it, the external
\* calls it made, and what it raised or returned.
Outcome(obj, cs, err, ret) ==
    [self |-> obj, calls |-> cs, raised |-> err, returned |-> ret]

\* gpx.gps.Prior(mean_function=meanfun, kernel=kernel)
Prior(meanfun, kernel) ==
    [cls |-> "Prior", mean_function |-> meanfun, kernel |-> kernel]

\* prior * likelihood
Posterior(prior, likelihood) ==
    [cls |-> "Posterior", prior |-> prior, likelihood |-> likelihood]

InitOutcome(kernel, meanfun, likelihood, object, key, fault) ==
    LET c1 == [fn |-> "gpx.gps.Prior",
               args |-> [mean_function |-> meanfun, kernel |-> kernel]]
        prior == Prior(meanfun, kernel)
        c2 == [fn |-> "Prior.__mul__",
               args |-> [prior |-> prior, likelihood |-> likelihood]]
        o1 == SetAttr(NoObject, "kernel", kernel)
        o2 == SetAttr(o1, "mean_fun", meanfun)
        o3 == SetAttr(o2, "key", key)
        o4 == SetAttr(o3, "prior", prior)
        o5 == SetAttr(o4, "likelihood", likelihood)
        o6 == SetAttr(o5, "object", object)
        o7 == SetAttr(o6, "posterior", Posterior(prior, likelihood))
    IN  IF fault = "gpx.gps.Prior"
        THEN Outcome(NoObject, <<c1>>, <<ExternalError(c1.fn)>>, <<>>)
        ELSE IF fault = "Prior.__mul__"
        THEN Outcome(NoObject, <<c1, c2>>, <<ExternalError(c2.fn)>>, <<>>)
        ELSE Outcome(o7, <<c1, c2>>, <<>>, <<None>>)

----------------------------------------------------------------------------
(* GPClassification.fit, classification.py lines 76-99.                    *)

NumIters == 500

\* The dataset built from x alone cast: y is handed over as given.
FitDatasetArgsUncastY(x, y) == [X |-> AsType(x, "float32"), y |-> y]

\* X=x.astype(jnp.float32), y=y.astype(jnp.float32)
FitDatasetArgs(x, y) ==
    [X |-> AsType(x, "float32"), y |-> AsType(y, "float32")]

\* gpx.Dataset(X=..., y=...): the library refuses X and y of different
\* numbers of rows.
Dataset(a) == [cls |-> "Dataset", X |-> a.X, y |-> a.y]

DatasetRaises(a) == Rows(a.X) # Rows(a.y)

\* The keyword arguments of gpx.fit, lines 92-98.
FitArgs(obj, optimizer) ==
    [model      |-> obj.posterior,
     objective  |-> obj.object,
     train_data |-> obj.dataset,
     optim      |-> optimizer,
     num_iters  |-> NumIters,
     key        |-> obj.key,
     verbose    |-> FALSE]

\* What gpx.fit returns: the optimised posterior and the history.
OptPosterior(a) == [cls |-> "OptPosterior", from |-> a]
History(a) == [cls |-> "History", from |-> a]

\* A fit that also makes the optimised posterior the model of later fits.
FitStoreAndReplace(obj, a) ==
    SetAttr(SetAttr(SetAttr(obj, "opt_posterior", OptPosterior(a)),
                    "history", History(a)),
            "posterior", OptPosterior(a))

\* self.opt_posterior, self.history = gpx.fit(...)
FitStore(obj, a) ==
    SetAttr(SetAttr(obj, "opt_posterior", OptPosterior(a)),
            "history", History(a))

FitOutcome(obj, x, y, optimizer, fault) ==
    LET da == FitDatasetArgs(x, y)
        c1 == [fn |-> "gpx.Dataset", args |-> da]
        o1 == SetAttr(obj, "dataset", Dataset(da))
        c2 == [fn |-> "self.object",
               args |-> [object |-> o1.object, posterior |-> o1.posterior,
                         train_data |-> o1.dataset]]
        fa == FitArgs(o1, optimizer)
        c3 == [fn |-> "gpx.fit", args |-> fa]
    IN  IF DatasetRaises(da)
        THEN Outcome(obj, <<c1>>, <<ExternalError(c1.fn)>>, <<>>)
        ELSE IF fault = "self.object"
        THEN Outcome(o1, <<c1, c2>>, <<ExternalError(c2.fn)>>, <<>>)
        ELSE IF fault = "gpx.fit"
        THEN Outcome(o1, <<c1, c2, c3>>, <<ExternalError(c3.fn)>>, <<>>)
        ELSE Outcome(FitStore(o1, fa), <<c1, c2, c3>>, <<>>, <<None>>)

----------------------------------------------------------------------------
(* GPClassification.predict, classification.py lines 101-119.              *)

\* The likelihood of an optimised posterior is that of the model it was
\* fitted from.
RECURSIVE LikelihoodOf(_)
LikelihoodOf(m) ==
    IF m.cls = "OptPosterior" THEN LikelihoodOf(m.from.model)
    ELSE m.likelihood

\* The distribution opt_posterior.predict(x, train_data=...) returns: one
\* point for each row of the test inputs.
Latent(a) == [cls |-> "LatentDist", from |-> a, n |-> Rows(a.test_inputs)]

\* The distribution likelihood(latent_dist) returns.
Predictive(a) == [cls |-> "PredictiveDist", from |-> a, n |-> a.dist.n]

\* dist.mean() and dist.stddev(): arrays with one entry for each point.
Mean(d) == [stat |-> "mean", of |-> d, shape |-> <<d.n>>]
Stddev(d) == [stat |-> "stddev", of |-> d, shape |-> <<d.n>>]

\* The posterior predict uses when no optimised one is stored: a fall
\* back to the construction-time posterior.
PredictModelFallBack(obj) ==
    IF HasAttr(obj, "opt_posterior") THEN <<obj.opt_posterior>>
    ELSE <<obj.posterior>>

\* self.opt_posterior: <<>> when the attribute is not set.
PredictModel(obj) ==
    IF HasAttr(obj, "opt_posterior") THEN <<obj.opt_posterior>> ELSE <<>>

\* The training inputs handed over as the test inputs.
PredictArgsTrainInputs(obj, model, x) ==
    [posterior |-> model, test_inputs |-> obj.dataset.X,
     train_data |-> obj.dataset]

\* opt_posterior.predict(x, train_data=self.dataset), line 114.
PredictArgs(obj, model, x) ==
    [posterior |-> model, test_inputs |-> x, train_data |-> obj.dataset]

\* The mean and the standard deviation taken of the latent distribution.
PredictReturnLatentStats(latent, predictive) ==
    <<predictive, Mean(latent), Stddev(latent)>>

\* Lines 117-119.
PredictReturn(latent, predictive) ==
    <<predictive, Mean(predictive), Stddev(predictive)>>

PredictOutcome(obj, x, fault) ==
    LET m == PredictModel(obj)
    IN  IF m = <<>>
        THEN Outcome(obj, <<>>, <<AttributeError("opt_posterior")>>, <<>>)
        ELSE IF ~HasAttr(obj, "dataset")
        THEN Outcome(obj, <<>>, <<AttributeError("dataset")>>, <<>>)
        ELSE
        LET pa == PredictArgs(obj, m[1], x)
            c1 == [fn |-> "opt_posterior.predict", args |-> pa]
            latent == Latent(pa)
            la == [likelihood |-> LikelihoodOf(m[1]), dist |-> latent]
            c2 == [fn |-> "opt_posterior.likelihood", args |-> la]
            predictive == Predictive(la)
            c3 == [fn |-> "predictive_dist.mean", args |-> predictive]
            c4 == [fn |-> "predictive_dist.stddev", args |-> predictive]
        IN  IF fault = c1.fn
            THEN Outcome(obj, <<c1>>, <<ExternalError(c1.fn)>>, <<>>)
            ELSE IF fault = c2.fn
            THEN Outcome(obj, <<c1, c2>>, <<ExternalError(c2.fn)>>, <<>>)
            ELSE Outcome(obj, <<c1, c2, c3, c4>>, <<>>,
                         <<PredictReturn(latent, predictive)>>)

----------------------------------------------------------------------------
(* Loading the module: classification.py lines 3-119 run top to bottom.    *)

\* The try statement of lines 8-34, then the class statement, whose def
\* of __init__ evaluates the default arguments.  With the stubs in place
\* the first default, RBF(), raises and the load ends there.
LoadOutcome(exc) ==
    IF exc = <<>>
    THEN [modState |-> "loaded", original_error_msg |-> <<>>,
          defaults |-> <<DefaultValues>>, calls |-> DefaultCalls,
          raised |-> <<>>]
    ELSE [modState |-> "failed", original_error_msg |-> exc,
          defaults |-> <<>>, calls |-> <<DefaultCalls[1]>>,
          raised |-> <<Stub(DefaultCalls[1].fn, DefaultCalls[1].args,
                            exc[1])>>]

----------------------------------------------------------------------------
(* The inputs of the operations.                                           *)

Kernels == {DefaultValues.kernel}
Likelihoods == {DefaultValues.likelihood,
                [cls |-> "Bernoulli", args |-> <<>>]}
Keys == {DefaultValues.key, [cls |-> "PRNGKey", args |-> <<42>>]}
Optimizers == {"ox.adam", "ox.sgd(0.001)"}
InitFaults == {"none", "gpx.gps.Prior", "Prior.__mul__"}
FitFaults == {"none", "self.object", "gpx.fit"}
PredictFaults == {"none", "opt_posterior.predict", "opt_posterior.likelihood"}

Constructed == DOMAIN self # {}

----------------------------------------------------------------------------
(* The state machine of the wrapper and its caller.                        *)

InitGP ==
    /\ import_exc \in {<<>>} \cup {<<t>> : t \in ImportErrorTexts}
    /\ modState = "unloaded"
    /\ original_error_msg = <<>>
    /\ defaults = <<>>
    /\ self = NoObject
    /\ op = [name |-> "none"]
    /\ calls = <<>>
    /\ raised = <<>>
    /\ returned = <<>>

\* import evox.operators.gaussian_process.classification: a module whose
\* load raised is loaded again by the next import.
LoadModule ==
    /\ modState # "loaded"
    /\ LET out == LoadOutcome(import_exc)
       IN  /\ modState' = out.modState
           /\ original_error_msg' = out.original_error_msg
           /\ defaults' = out.defaults
           /\ calls' = out.calls
           /\ raised' = out.raised
    /\ op' = [name |-> "import"]
    /\ returned' = <<>>
    /\ UNCHANGED <<import_exc, self, scriptVars>>

Apply(out) ==
    /\ self' = out.self
    /\ calls' = out.calls
    /\ raised' = out.raised
    /\ returned' = out.returned

\* GPClassification(kernel, meanfun, likelihood, object, key)
Construct(kernel, likelihood, key, fault) ==
    /\ modState = "loaded"
    /\ ~Constructed
    /\ Apply(InitOutcome(kernel, defaults[1].meanfun, likelihood,
                         defaults[1].object, key, fault))
    /\ op' = [name |-> "__init__", kernel |-> kernel,
              likelihood |-> likelihood, key |-> key]
    /\ UNCHANGED <<import_exc, modState, original_error_msg, defaults,
                   scriptVars>>

\* model.fit(x, y, optimizer)
Fit(x, y, optimizer, fault) ==
    /\ Constructed
    /\ Apply(FitOutcome(self, x, y, optimizer, fault))
    /\ op' = [name |-> "fit", x |-> x, y |-> y, optimizer |-> optimizer]
    /\ UNCHANGED <<import_exc, modState, original_error_msg, defaults,
                   scriptVars>>

\* model.predict(x)
Predict(x, fault) ==
    /\ Constructed
    /\ Apply(PredictOutcome(self, x, fault))
    /\ op' = [name |-> "predict", x |-> x]
    /\ UNCHANGED <<import_exc, modState, original_error_msg, defaults,
                   scriptVars>>

NextGP ==
    \/ LoadModule
    \/ \E k \in Kernels, l \in Likelihoods, key \in Keys, f \in InitFaults :
           Construct(k, l, key, f)
    \/ \E x \in Arrays, y \in Labels, o \in Optimizers, f \in FitFaults :
           Fit(x, y, o, f)
    \/ \E x \in Arrays, f \in PredictFaults : Predict(x, f)

----------------------------------------------------------------------------
(* tests/test.py: the constants of lines 14-19.                            *)

N == 12
M == 3
POP_SIZE == 100
LB == 0
UB == 1
ITER == 100

\* The functions the main entry point may call.
Algorithms == {"NSGA2", "RMMEDA", "IMMOEA"}

\* algorithms.X(lb=jnp.full((N,), LB), ub=jnp.full((N,), UB), n_objs=M,
\*              pop_size=POP_SIZE), lines 21-46.
Algorithm(name) ==
    [cls |-> name, lb |-> Fill(N, LB), ub |-> Fill(N, UB), n_objs |-> M,
     pop_size |-> POP_SIZE]

\* workflow.init(key): the state of a workflow no step has been made on.
WorkflowInit(alg, key) ==
    [algorithm |-> alg, key |-> key, inits |-> 1, pfs |-> 0, steps |-> 0]

\* problem.pf(state): the true Pareto front and the state after the call.
ProblemPf(st) ==
    [true_pf |-> [cls |-> "ParetoFront", problem |-> "DTLZ2", m |-> M],
     state |-> [st EXCEPT !.pfs = st.pfs + 1]]

\* workflow.step(state)
WorkflowStep(st) == [st EXCEPT !.steps = st.steps + 1]

\* state.get_child_state("algorithm").fitness
Fitness(st) == [cls |-> "Fitness", of |-> st]

\* ind(obj) with ind = IGD(true_pf)
IGD(pf, obj) == [cls |-> "IGD", true_pf |-> pf, obj |-> obj]

\* A loop that runs once more than range(ITER) does.
LoopContinuesInclusive(k) == k <= ITER

\* for i in range(ITER), line 59
LoopContinues(k) == k < ITER

----------------------------------------------------------------------------
(* tests/test.py: f and rr, lines 79-93.  Arrays are sequences here, so    *)
(* the entry the code calls a[i] is a[i + 1].                              *)

\* f(x), line 81
f(x) == <<<<x, x + 1, x + 2>>, <<x + 3, x + 4, x + 5>>,
          <<x + 6, x + 7, x + 8>>, <<x + 9, x + 10, x + 11>>>>

\* jax.vmap(f, in_axes=0, out_axes=0)(xs): f of each entry, stacked.
VmapF(xs) == [b \in DOMAIN xs |-> f(xs[b])]

\* jnp.zeros(shape=(r, c))
Zeros(r, c) == [a \in 1..r |-> [b \in 1..c |-> 0]]

\* a.shape of a three-dimensional array
Shape3(a) == <<Len(a), Len(a[1]), Len(a[1][1])>>

\* result[:, k, :] for the code's index k
SliceAxis1(a, k) == [b \in DOMAIN a |-> a[b][k + 1]]

\* m.flatten(): the rows of m one after the other.
Flatten(m) ==
    LET r == Len(m)
        c == Len(m[1])
    IN  [k \in 1..(r * c) |-> m[((k - 1) \div c) + 1][((k - 1) % c) + 1]]

\* A loop over the batch axis instead: range(result.shape[0]).
RrLoopBoundAxis0(a) == Shape3(a)[1]

\* range(result.shape[1]), line 89
RrLoopBound(a) == Shape3(a)[2]

\* a.at[k].set(row) for the code's index k: the values become floats of
\* the array's dtype.
AtSet(a, k, row) ==
    [a EXCEPT ![k + 1] = [b \in DOMAIN row |-> Float32(row[b])]]

----------------------------------------------------------------------------
(* The state machine of tests/test.py.                                     *)

InitScriptIdle ==
    /\ pc = "idle"
    /\ algorithm = None
    /\ state = <<>>
    /\ true_pf = <<>>
    /\ i = 0
    /\ printed = <<>>
    /\ result = <<>>
    /\ re_res = <<>>

Init == InitGP /\ InitScriptIdle

Spec == Init /\ [][NextGP]_vars

\* nsga2(), rm_meda() or im_moea() up to line 55 of run_moea: the
\* algorithm and the workflow are built.
StartMoea(name) ==
    /\ pc = "idle"
    /\ algorithm' = Algorithm(name)
    /\ pc' = "init"
    /\ UNCHANGED <<state, true_pf, i, printed, result, re_res, gpVars>>

\* state = workflow.init(key), line 56
MoeaInit ==
    /\ pc = "init"
    /\ state' = <<WorkflowInit(algorithm,
                               [cls |-> "PRNGKey", args |-> <<42>>])>>
    /\ pc' = "pf"
    /\ UNCHANGED <<algorithm, true_pf, i, printed, result, re_res, gpVars>>

\* true_pf, state = problem.pf(state); ind = IGD(true_pf), lines 57-58
MoeaPf ==
    /\ pc = "pf"
    /\ LET r == ProblemPf(state[1])
       IN  /\ true_pf' = <<r.true_pf>>
           /\ state' = <<r.state>>
    /\ i' = 0
    /\ pc' = "loop"
    /\ UNCHANGED <<algorithm, printed, result, re_res, gpVars>>

\* The head of the for statement, line 59.
MoeaLoop ==
    /\ pc = "loop"
    /\ pc' = IF LoopContinues(i) THEN "step" ELSE "done"
    /\ UNCHANGED <<algorithm, state, true_pf, i, printed, result, re_res,
                   gpVars>>

\* state = workflow.step(state), line 60
MoeaStep ==
    /\ pc = "step"
    /\ state' = <<WorkflowStep(state[1])>>
    /\ pc' = "metric"
    /\ UNCHANGED <<algorithm, true_pf, i, printed, result, re_res, gpVars>>

\* obj = ...fitness; print(ind(obj)), lines 61-62, and the next i
MoeaMetric ==
    /\ pc = "metric"
    /\ printed' = Append(printed, IGD(true_pf[1], Fitness(state[1])))
    /\ i' = i + 1
    /\ pc' = "loop"
    /\ UNCHANGED <<algorithm, state, true_pf, result, re_res, gpVars>>

\* rr(), lines 85-87
RrStart ==
    /\ pc = "idle"
    /\ result' = VmapF(<<0, 1, 2>>)
    /\ re_res' = Zeros(4, 9)
    /\ i' = 0
    /\ pc' = "rr_loop"
    /\ UNCHANGED <<algorithm, state, true_pf, printed, gpVars>>

\* One pass of the loop of lines 89-90, or its end and lines 92-93.
RrLoop ==
    /\ pc = "rr_loop"
    /\ IF i < RrLoopBound(result)
       THEN /\ re_res' = AtSet(re_res, i, Flatten(SliceAxis1(result, i)))
            /\ i' = i + 1
            /\ UNCHANGED <<pc, printed>>
       ELSE /\ printed' = <<Shape3(result), re_res>>
            /\ pc' = "rr_done"
            /\ UNCHANGED <<i, re_res>>
    /\ UNCHANGED <<algorithm, state, true_pf, result, gpVars>>

NextScript ==
    \/ \E name \in Algorithms : StartMoea(name)
    \/ MoeaInit
    \/ MoeaPf
    \/ MoeaLoop
    \/ MoeaStep
    \/ MoeaMetric
    \/ RrStart
    \/ RrLoop

\* tests/test.py imports gpjax itself (line 7): it runs only where the
\* library is installed.
InitScript ==
    /\ import_exc = <<>>
    /\ modState = "unloaded"
    /\ original_error_msg = <<>>
    /\ defaults = <<>>
    /\ self = NoObject
    /\ op = [name |-> "none"]
    /\ calls = <<>>
    /\ raised = <<>>
    /\ returned = <<>>
    /\ InitScriptIdle

SpecScript == InitScript /\ [][NextScript]_vars

----------------------------------------------------------------------------
(* The claims.                                                             *)

ClaimStubs == {"RBF", "Zero", "LogPosteriorDensity"}

\* C1: with gpjax absent, every stub (RBF, Zero, LogPosteriorDensity),
\* whatever its arguments, raises an ImportError whose message contains
\* the text of the original import failure, and so does every attempt to
\* get a wrapper: no wrapper is ever constructed, and the error the
\* attempt raises contains that text.
C1_AbsentErrorsCarryImportText ==
    import_exc # <<>> =>
        /\ ~Constructed
        /\ raised # <<>> => Contains(raised[1].msg, import_exc[1])
        /\ modState = "failed" =>
              /\ raised # <<>>
              /\ \A n \in ClaimStubs, a \in StubArgs :
                    LET e == Stub(n, a, original_error_msg[1])
                    IN  /\ e.type = "ImportError"
                        /\ Contains(e.msg, import_exc[1])

\* C1 witness: gpjax is absent and the stub RBF has been called and has
\* raised its ImportError.
C1_Witness ==
    /\ import_exc # <<>>
    /\ op.name = "import"
    /\ Len(calls) = 1 /\ calls[1].fn = "RBF"
    /\ raised # <<>> /\ raised[1].type = "ImportError"

\* C2: loading the module with gpjax absent completes without raising
\* and without calling any stub.
C2_LoadToleratesAbsence ==
    (import_exc # <<>> /\ op.name = "import") =>
        /\ modState = "loaded"
        /\ raised = <<>>
        /\ \A k \in DOMAIN calls : calls[k].fn \notin StubNames

\* C3 as stated: after a successful fit, predict(x) calls the optimised
\* posterior's predict with the stored dataset and returns a three-tuple
\* whose mean and standard deviation are those of the distribution that
\* call returned.
C3_StatsOfPredictCallDist ==
    (op.name = "predict" /\ returned # <<>>) =>
        LET latent == Latent(calls[1].args)
        IN  /\ calls[1].fn = "opt_posterior.predict"
            /\ calls[1].args = [posterior |-> self.opt_posterior,
                                test_inputs |-> op.x,
                                train_data |-> self.dataset]
            /\ Len(returned[1]) = 3
            /\ returned[1][2] = Mean(latent)
            /\ returned[1][3] = Stddev(latent)

\* C3 amended: after a successful fit, predict(x) calls the optimised
\* posterior's predict with x and the dataset stored in self.dataset,
\* applies the optimised posterior's likelihood to the distribution that
\* call returned, and returns the three-tuple of the resulting predictive
\* distribution, its mean and its standard deviation.
C3_StatsOfPredictiveDist ==
    (op.name = "predict" /\ returned # <<>>) =>
        LET latent == Latent(calls[1].args)
            pd == Predictive([likelihood |-> self.likelihood,
                              dist |-> latent])
        IN  /\ calls[1].fn = "opt_posterior.predict"
            /\ calls[1].args = [posterior |-> self.opt_posterior,
                                test_inputs |-> op.x,
                                train_data |-> self.dataset]
            /\ calls[2].fn = "opt_posterior.likelihood"
            /\ calls[2].args.dist = latent
            /\ Len(returned[1]) = 3
            /\ returned[1][1] = pd
            /\ returned[1][2] = Mean(pd)
            /\ returned[1][3] = Stddev(pd)

\* C3 witness: a predict has returned, after a fit stored a posterior.
C3_Witness ==
    /\ op.name = "predict"
    /\ returned # <<>>
    /\ HasAttr(self, "opt_posterior")

\* The calls a fit of x, y with the optimizer makes when nothing raises.
ExpectedFitCalls(x, y, optimizer) ==
    LET da == [X |-> AsType(x, "float32"), y |-> AsType(y, "float32")]
        d  == [cls |-> "Dataset", X |-> da.X, y |-> da.y]
    IN  <<[fn |-> "gpx.Dataset", args |-> da],
          [fn |-> "self.object",
           args |-> [object |-> self.object, posterior |-> self.posterior,
                     train_data |-> d]],
          [fn |-> "gpx.fit",
           args |-> [model |-> self.posterior, objective |-> self.object,
                     train_data |-> d, optim |-> optimizer,
                     num_iters |-> 500, key |-> self.key,
                     verbose |-> FALSE]]>>

\* C4: a fit builds the dataset of x and y cast to 32-bit floats and
\* stores it, then evaluates the objective once on the construction-time
\* posterior and that dataset, then calls the external fit once with the
\* caller's optimizer, num_iters = 500 and the constructor's key, then
\* stores the optimised posterior and the history.  A fit that raises
\* has made a prefix of these calls, the last of which raised.
C4_FitSequence ==
    op.name = "fit" =>
        LET full == ExpectedFitCalls(op.x, op.y, op.optimizer)
            n == Len(calls)
        IN  /\ n \in 1..3
            /\ calls = SubSeq(full, 1, n)
            /\ full[1].args.X.dtype = "float32"
            /\ full[1].args.y.dtype = "float32"
            /\ self.posterior =
                  Posterior(Prior(self.mean_fun, self.kernel),
                            self.likelihood)
            /\ n >= 2 => self.dataset = full[2].args.train_data
            /\ raised # <<>> => raised[1] = ExternalError(calls[n].fn)
            /\ raised = <<>> =>
                  /\ n = 3
                  /\ self.opt_posterior =
                        [cls |-> "OptPosterior", from |-> full[3].args]
                  /\ self.history =
                        [cls |-> "History", from |-> full[3].args]

\* C4 witness: a fit has run to its end with an optimizer that is not
\* the default one and a feature value the cast changes.
C4_Witness ==
    /\ op.name = "fit"
    /\ raised = <<>>
    /\ op.optimizer = "ox.sgd(0.001)"
    /\ self.dataset.X.data # op.x.data

\* C5: when fit and then predict(x) have returned, the standard
\* deviation has one entry for each of the n rows of x.
C5_StddevLeadingDimension ==
    (op.name = "predict" /\ returned # <<>>) =>
        /\ returned[1][3].stat = "stddev"
        /\ returned[1][3].shape[1] = Rows(op.x)

\* C5 witness: a predict has returned for an x with another number of
\* rows than the training set.
C5_Witness ==
    /\ op.name = "predict"
    /\ returned # <<>>
    /\ Rows(op.x) # Rows(self.dataset.X)

FitWrites == {"dataset", "opt_posterior", "history"}

\* C6: once constructed, the wrapper's kernel, mean_fun, key, prior,
\* likelihood, object and posterior never change: a fit writes only
\* dataset, opt_posterior and history, a predict writes nothing, and the
\* external fit is given the posterior and the key the wrapper had before
\* the call.
C6_ConstructionAttributesFrozen ==
    [][Constructed =>
         /\ DOMAIN self \subseteq DOMAIN self'
         /\ DOMAIN self' \subseteq (DOMAIN self) \cup FitWrites
         /\ \A a \in (DOMAIN self) \ FitWrites : self'[a] = self[a]
         /\ {"kernel", "mean_fun", "key", "prior", "likelihood", "object",
             "posterior"} \subseteq DOMAIN self
         /\ op'.name = "predict" => self' = self
         /\ op'.name \in {"fit", "predict"}
         /\ (op'.name = "fit" /\ Len(calls') = 3) =>
               /\ calls'[3].args.model = self.posterior
               /\ calls'[3].args.key = self.key]_vars

\* C6 witness: a fit has run (and raised) on a wrapper in which an
\* earlier fit had stored an optimised posterior, and the posterior is
\* still the one of the construction.
C6_Witness ==
    /\ op.name = "fit"
    /\ raised # <<>>
    /\ HasAttr(self, "opt_posterior")
    /\ self.posterior =
          Posterior(Prior(self.mean_fun, self.kernel), self.likelihood)

\* C9: a predict on a wrapper in which no fit has stored an optimised
\* posterior raises an error, calls nothing, returns nothing and leaves
\* every attribute as it was; so a predict that returns has a stored
\* optimised posterior.
C9_PredictNeedsFit ==
    [][(op'.name = "predict" /\ ~HasAttr(self, "opt_posterior")) =>
          /\ raised' # <<>>
          /\ raised'[1].type = "AttributeError"
          /\ returned' = <<>>
          /\ calls' = <<>>
          /\ self' = self]_vars

\* C9 witness: a predict has raised on a wrapper with no optimised
\* posterior, although a fit that failed had stored a dataset.
C9_Witness ==
    /\ op.name = "predict"
    /\ raised # <<>>
    /\ ~HasAttr(self, "opt_posterior")
    /\ HasAttr(self, "dataset")

\* C10: whenever opt_posterior is set, it and history come from the
\* external fit on the dataset stored in self.dataset.
C10_OptPosteriorOfStoredDataset ==
    HasAttr(self, "opt_posterior") =>
        /\ self.opt_posterior.from.train_data = self.dataset
        /\ self.history.from.train_data = self.dataset

MoeaPcs == {"init", "pf", "loop", "step", "metric", "done"}

\* C7: run_moea initialises the workflow once and computes the true
\* Pareto front once, before any step; it then steps the workflow exactly
\* ITER = 100 times, and after each step, and only then, prints the IGD
\* of the current fitness: the k-th value printed is that of the state
\* after exactly k steps, and 100 values are printed in all.
C7_MoeaPrintsAfterEachStep ==
    pc \in MoeaPcs =>
        /\ pc \in {"init", "pf"} => (true_pf = <<>> /\ printed = <<>>)
        /\ pc = "init" => state = <<>>
        /\ pc = "pf" =>
              (state[1].inits = 1 /\ state[1].pfs = 0 /\ state[1].steps = 0)
        /\ pc \in {"loop", "step", "metric", "done"} =>
              /\ state[1].inits = 1
              /\ state[1].pfs = 1
              /\ true_pf # <<>>
              /\ Len(printed) = i
              /\ state[1].steps = IF pc = "metric" THEN i + 1 ELSE i
              /\ \A k \in 1..Len(printed) :
                    /\ printed[k].cls = "IGD"
                    /\ printed[k].true_pf = true_pf[1]
                    /\ printed[k].obj.cls = "Fitness"
                    /\ printed[k].obj.of.steps = k
                    /\ printed[k].obj.of.algorithm = algorithm
              /\ i <= 100
              /\ pc = "done" => (i = 100 /\ state[1].steps = 100)

\* C7 witness: the loop has ended and the last value printed is that of
\* the state after 100 steps.
C7_Witness ==
    /\ pc = "done"
    /\ Len(printed) = 100
    /\ printed[100].obj.of.steps = 100

\* C8: in rr the batched result has shape (3, 4, 3) with
\* result[b][i][j] = b + 3*i + j; the loop ends after exactly 4 passes,
\* pass i setting row i of the 4x9 matrix re_res and no other, so that
\* in the end re_res[i][3*b + j] = b + 3*i + j.
C8_RrReshape ==
    pc \in {"rr_loop", "rr_done"} =>
        /\ Shape3(result) = <<3, 4, 3>>
        /\ \A b \in 0..2, r \in 0..3, c \in 0..2 :
              result[b + 1][r + 1][c + 1] = b + 3 * r + c
        /\ i \in 0..4
        /\ pc = "rr_done" => i = 4
        /\ Len(re_res) = 4
        /\ \A r \in 0..3 :
              /\ Len(re_res[r + 1]) = 9
              /\ \A b \in 0..2, c \in 0..2 :
                    re_res[r + 1][3 * b + c + 1] =
                        IF r < i THEN b + 3 * r + c ELSE 0

\* C8 witness: rr has ended, and has printed the shape and the matrix.
C8_Witness ==
    /\ pc = "rr_done"
    /\ i = 4
    /\ printed = <<<<3, 4, 3>>, re_res>>
    /\ re_res[4][9] = 13

====
